---- MODULE Spec2Model ----
(***************************************************************************)
(* State-machine model of the queue / orchestration core of                *)
(* nocturnal-archive:                                                      *)
(*   src/src/core/queue_handler.rs      QueueHandler                       *)
(*   src/src/core/document_processor.rs DocumentProcessor                  *)
(*   src/src/core/research_manager.rs   ResearchManager                    *)
(* The Redis store is modelled by its lists (LPUSH adds at index 1, RPOP   *)
(* removes the last element) and its string keys.  Serialized values are   *)
(* sequences of <<field name, value>> pairs in declaration order, which is *)
(* what serde_json::to_string emits for a struct; from_str looks fields up *)
(* by name and fails when a required field is missing.                     *)
(***************************************************************************)
EXTENDS Integers, Sequences, FiniteSets, TLC

\* ------------------------------------------------------------------ bounds
MaxProduced == 2       \* enqueue and process_document calls in one run
MaxRetriesBound == 2   \* max_retries is drawn from 0..MaxRetriesBound
MaxSessions == 2       \* start_research calls in one run
MaxLen == 3            \* bytes of Document.content where the content is varied

\* Concurrent callers of process_retries and of process_research_queue.
RetryCallers == {1, 2}
Drainers == {1, 2}

\* Inputs a caller may supply.
Priorities == {0, 5}
Payloads == {[data |-> "p"]}
Topics == {"quantum computing"}

\* Outcome of the store calls of one step (get_async_connection and the
\* command): both succeed, or one of them fails with a RedisError.
StoreOutcomes == {"Ok", "Err"}

\* i32 arithmetic of QueueItem.priority and QueueItem.retry_count
\* (release build: += wraps).
I32Max == 2147483647
Inc32(x) == IF x = I32Max THEN -I32Max - 1 ELSE x + 1

\* ------------------------------------------------------- the store's lists
\* LPUSH key value
lpush_AtPopEnd(list, v) == Append(list, v)
lpush(list, v) == <<v>> \o list

\* RPOP key: the value returned and the list left behind (list non-empty)
rpop_value(list) == list[Len(list)]
rpop_rest_DropsTwo(list) == SubSeq(list, 1, Len(list) - 2)
rpop_rest_Peek(list) == list
rpop_rest(list) == SubSeq(list, 1, Len(list) - 1)

\* --------------------------------------------------------- serialization
HasField(data, name) == \E i \in DOMAIN data : data[i][1] = name
GetField(data, name) == data[CHOOSE i \in DOMAIN data : data[i][1] = name][2]

\* #[derive(Serialize)] struct QueueItem
QueueItem_to_string_DefaultPriority(item) ==
    << <<"id", item.id>>, <<"priority", 0>>,
       <<"retry_count", item.retry_count>>, <<"payload", item.payload>> >>
QueueItem_to_string(item) ==
    << <<"id", item.id>>, <<"priority", item.priority>>,
       <<"retry_count", item.retry_count>>, <<"payload", item.payload>> >>

\* #[derive(Deserialize)] struct QueueItem: every field is required,
\* unknown fields are ignored.
QueueItemFields == {"id", "priority", "retry_count", "payload"}
QueueItem_from_str(data) ==
    IF \A f \in QueueItemFields : HasField(data, f)
    THEN [ok |-> TRUE,
          item |-> [id |-> GetField(data, "id"),
                    priority |-> GetField(data, "priority"),
                    retry_count |-> GetField(data, "retry_count"),
                    payload |-> GetField(data, "payload")]]
    ELSE [ok |-> FALSE, item |-> "none"]

\* -------------------------------------------------------- document types
\* Document.content is a byte vector; the model's bytes are 'a' (97),
\* line feed (10) and 0xFF (255), which is never valid in UTF-8.
Bytes == {97, 10, 255}
LF == "\n"
ByteToChar(b) == IF b = 10 THEN LF ELSE "a"

\* String::from_utf8
from_utf8(content) ==
    IF \E i \in DOMAIN content : content[i] = 255
    THEN [ok |-> FALSE, text |-> <<>>]
    ELSE [ok |-> TRUE, text |-> [i \in DOMAIN content |-> ByteToChar(content[i])]]

\* str::split('\n'): the segments between line feeds, empty ones included.
RECURSIVE split(_)
split(text) ==
    IF \A i \in DOMAIN text : text[i] # LF
    THEN <<text>>
    ELSE LET i == CHOOSE k \in DOMAIN text :
                      text[k] = LF /\ \A j \in 1..(k - 1) : text[j] # LF
         IN <<SubSeq(text, 1, i - 1)>> \o split(SubSeq(text, i + 1, Len(text)))

\* DocumentProcessor::create_chunks
create_chunks_NoEmpty(text) ==
    LET segs == SelectSeq(split(text), LAMBDA seg : seg # <<>>)
    IN [i \in DOMAIN segs |-> [content |-> segs[i], index |-> i - 1]]
create_chunks_OneBased(text) ==
    LET segs == split(text)
    IN [i \in DOMAIN segs |-> [content |-> segs[i], index |-> i]]
create_chunks(text) ==
    LET segs == split(text)
    IN [i \in DOMAIN segs |-> [content |-> segs[i], index |-> i - 1]]

\* #[derive(Serialize)] struct ProcessedDocument
ProcessedDocument_to_string(doc) ==
    << <<"doc_id", doc.doc_id>>, <<"text_content", doc.text_content>>,
       <<"chunks", doc.chunks>>, <<"metadata", doc.metadata>> >>

\* ------------------------------------------------------------------ state
VARIABLES
    max_retries,        \* QueueHandler.max_retries, fixed at construction
    processing_queue,   \* list "processing_queue"
    retry_queue,        \* list "retry_queue"
    dead_letter_queue,  \* list "dead_letter_queue"
    held,               \* items a consumer got from dequeue and will hand to retry
    pr,                 \* per caller of process_retries: position and local item
    nextItem,           \* id of the next QueueItem a producer creates
    nextDoc,            \* id of the next Document handed to process_document
    calls,              \* store calls of the queue operation step that ran last
    research_queue,     \* list "research_queue"
    status,             \* key research:{id}:status
    progress,           \* key research:{id}:progress
    active_sessions,    \* ResearchManager.active_sessions
    dr,                 \* per caller of process_research_queue: position and session
    nextSession,        \* stands for the next Uuid::new_v4()
    events,             \* per session: the calls process_research_queue made for it
    ret                 \* what the operation that returned last returned

queueVars == <<max_retries, processing_queue, retry_queue, dead_letter_queue,
               held, pr, nextItem, nextDoc, calls>>
researchVars == <<research_queue, status, progress, active_sessions, dr, nextSession,
                  events>>
vars == <<queueVars, researchVars, ret>>

\* Result values.  val is <<>> for () and None, <<x>> for Some(x) or x.
Ok(op, val) == [op |-> op, res |-> "Ok", err |-> "", val |-> val]
Err(op, err) == [op |-> op, res |-> "Err", err |-> err, val |-> <<>>]

\* impl From<redis::RedisError> for ProcessingError
RedisError == "Queue"

\* The store calls a step issues.  names are its store calls in program
\* order, each followed by `?`.  out tells which of them fails: none ("Ok"),
\* the first ("Err1"), the second ("Err2"), or the last one ("Err"); the
\* calls after the failing one are not reached.
FailAt(names, out) ==
    CASE out = "Ok" -> 0
      [] out = "Err1" -> 1
      [] out = "Err2" -> IF Len(names) >= 2 THEN 2 ELSE Len(names)
      [] OTHER -> Len(names)
Issued_Retrying(names, out) ==
    LET k == FailAt(names, out)
    IN IF k = 0
       THEN [i \in 1..Len(names) |-> [call |-> names[i], res |-> "Ok"]]
       ELSE [i \in 1..(k + 1) |->
               [call |-> names[IF i > k THEN k ELSE i],
                res |-> IF i >= k THEN "Err" ELSE "Ok"]]
Issued(names, out) ==
    LET k == FailAt(names, out)
    IN IF k = 0
       THEN [i \in 1..Len(names) |-> [call |-> names[i], res |-> "Ok"]]
       ELSE [i \in 1..k |-> [call |-> names[i], res |-> IF i = k THEN "Err" ELSE "Ok"]]
Connect == "get_async_connection"
\* serde_json::Error raised by from_str / to_string
SerdeError == "serde_json::Error"

\* ----------------------------------------------------------- QueueHandler
\* QueueHandler::enqueue
Enqueue(item, out) ==
    /\ nextItem + nextDoc - 2 < MaxProduced
    /\ nextItem' = nextItem + 1
    /\ IF out = "Ok"
       THEN /\ processing_queue' = lpush(processing_queue, QueueItem_to_string(item))
            /\ ret' = Ok("enqueue", <<>>)
       ELSE /\ ret' = Err("enqueue", RedisError)
            /\ UNCHANGED processing_queue
    /\ calls' = Issued(<<Connect, "lpush processing_queue">>, out)
    /\ UNCHANGED <<max_retries, retry_queue, dead_letter_queue, held, pr, nextDoc>>
    /\ UNCHANGED researchVars

\* QueueHandler::dequeue.  keep: the consumer's work on the returned item
\* fails, so it keeps the item to hand it to retry; otherwise the item is done.
Dequeue(out, keep) ==
    /\ IF out # "Ok"
       THEN /\ ret' = Err("dequeue", RedisError)
            /\ UNCHANGED <<processing_queue, held>>
       ELSE IF processing_queue = <<>>
       THEN /\ ret' = Ok("dequeue", <<>>)
            /\ UNCHANGED <<processing_queue, held>>
       ELSE LET data == rpop_value(processing_queue)
                parsed == QueueItem_from_str(data)
            IN /\ processing_queue' = rpop_rest(processing_queue)
               /\ IF parsed.ok
                  THEN /\ ret' = Ok("dequeue", <<parsed.item>>)
                       /\ held' = IF keep THEN held \cup {parsed.item} ELSE held
                  ELSE /\ ret' = Err("dequeue", SerdeError)
                       /\ UNCHANGED held
    /\ calls' = Issued(<<Connect, "rpop processing_queue">>, out)
    /\ UNCHANGED <<max_retries, retry_queue, dead_letter_queue, pr, nextItem, nextDoc>>
    /\ UNCHANGED researchVars

\* item.retry_count += 1
IncrementRetryCount_Skipped(item) == item
IncrementRetryCount(item) == [item EXCEPT !.retry_count = Inc32(@)]

\* if item.retry_count >= self.max_retries
Exhausted_Gt(item, max) == item.retry_count > max
Exhausted(item, max) == item.retry_count >= max

\* self.move_to_dead_letter(&item).await?; return Ok(());
RetryExhaustedReturn_Err == Err("retry", "MaxRetriesExceeded")
RetryExhaustedReturn == Ok("retry", <<>>)

\* QueueHandler::retry with move_to_dead_letter
Retry(item, out) ==
    /\ item \in held
    /\ held' = held \ {item}
    /\ LET it == IncrementRetryCount(item)
       IN IF Exhausted(it, max_retries)
          THEN IF out = "Ok"
               THEN /\ dead_letter_queue' =
                          lpush(dead_letter_queue, QueueItem_to_string(it))
                    /\ ret' = RetryExhaustedReturn
                    /\ UNCHANGED retry_queue
               ELSE /\ ret' = Err("retry", RedisError)
                    /\ UNCHANGED <<retry_queue, dead_letter_queue>>
          ELSE IF out = "Ok"
               THEN /\ retry_queue' = lpush(retry_queue, QueueItem_to_string(it))
                    /\ ret' = Ok("retry", <<>>)
                    /\ UNCHANGED dead_letter_queue
               ELSE /\ ret' = Err("retry", RedisError)
                    /\ UNCHANGED <<retry_queue, dead_letter_queue>>
    /\ calls' = Issued(<<Connect,
                         IF Exhausted(IncrementRetryCount(item), max_retries)
                         THEN "lpush dead_letter_queue" ELSE "lpush retry_queue">>, out)
    /\ UNCHANGED <<max_retries, processing_queue, pr, nextItem, nextDoc>>
    /\ UNCHANGED researchVars

\* item.priority += 1
Promote_Forgotten(item) == item
Promote(item) == [item EXCEPT !.priority = Inc32(@)]

PrIdle == [pc |-> "idle", item |-> <<>>]

\* QueueHandler::process_retries: get_async_connection
PR_Connect(w, out) ==
    /\ pr[w].pc = "idle"
    /\ IF out = "Ok"
       THEN /\ pr' = [pr EXCEPT ![w].pc = "pop"]
            /\ UNCHANGED ret
       ELSE /\ ret' = Err("process_retries", RedisError)
            /\ UNCHANGED pr
    /\ calls' = Issued(<<Connect>>, out)
    /\ UNCHANGED <<max_retries, processing_queue, retry_queue, dead_letter_queue,
                   held, nextItem, nextDoc>>
    /\ UNCHANGED researchVars

\* QueueHandler::process_retries: the loop head, rpop and from_str
PR_Pop(w, out) ==
    /\ pr[w].pc = "pop"
    /\ IF out # "Ok"
       THEN /\ ret' = Err("process_retries", RedisError)
            /\ pr' = [pr EXCEPT ![w] = PrIdle]
            /\ UNCHANGED retry_queue
       ELSE IF retry_queue = <<>>
       THEN /\ ret' = Ok("process_retries", <<>>)
            /\ pr' = [pr EXCEPT ![w] = PrIdle]
            /\ UNCHANGED retry_queue
       ELSE LET data == rpop_value(retry_queue)
                parsed == QueueItem_from_str(data)
            IN /\ retry_queue' = rpop_rest(retry_queue)
               /\ IF parsed.ok
                  THEN /\ pr' = [pr EXCEPT ![w] =
                                    [pc |-> "enqueue", item |-> <<Promote(parsed.item)>>]]
                       /\ UNCHANGED ret
                  ELSE /\ ret' = Err("process_retries", SerdeError)
                       /\ pr' = [pr EXCEPT ![w] = PrIdle]
    /\ calls' = Issued(<<"rpop retry_queue">>, out)
    /\ UNCHANGED <<max_retries, processing_queue, dead_letter_queue,
                   held, nextItem, nextDoc>>
    /\ UNCHANGED researchVars

\* QueueHandler::process_retries: self.enqueue(item).await?
PR_Enqueue(w, out) ==
    /\ pr[w].pc = "enqueue"
    /\ IF out = "Ok"
       THEN /\ processing_queue' =
                  lpush(processing_queue, QueueItem_to_string(pr[w].item[1]))
            /\ pr' = [pr EXCEPT ![w] = [pc |-> "pop", item |-> <<>>]]
            /\ UNCHANGED ret
       ELSE /\ ret' = Err("process_retries", RedisError)
            /\ pr' = [pr EXCEPT ![w] = PrIdle]
            /\ UNCHANGED processing_queue
    /\ calls' = Issued(<<Connect, "lpush processing_queue">>, out)
    /\ UNCHANGED <<max_retries, retry_queue, dead_letter_queue,
                   held, nextItem, nextDoc>>
    /\ UNCHANGED researchVars

\* QueueHandler::get_queue_length
GetQueueLength_Popping(out) ==
    /\ ret' = IF out = "Ok"
              THEN Ok("get_queue_length", <<Len(processing_queue), Len(retry_queue)>>)
              ELSE Err("get_queue_length", RedisError)
    /\ processing_queue' =
          IF out = "Ok" /\ processing_queue # <<>>
          THEN rpop_rest(processing_queue) ELSE processing_queue
    /\ calls' = Issued(<<Connect, "llen processing_queue", "llen retry_queue">>, out)
    /\ UNCHANGED <<max_retries, retry_queue, dead_letter_queue, held, pr,
                   nextItem, nextDoc>>
    /\ UNCHANGED researchVars
GetQueueLength(out) ==
    /\ ret' = IF out = "Ok"
              THEN Ok("get_queue_length", <<Len(processing_queue), Len(retry_queue)>>)
              ELSE Err("get_queue_length", RedisError)
    /\ calls' = Issued(<<Connect, "llen processing_queue", "llen retry_queue">>, out)
    /\ UNCHANGED <<max_retries, processing_queue, retry_queue, dead_letter_queue,
                   held, pr, nextItem, nextDoc>>
    /\ UNCHANGED researchVars

\* ------------------------------------------------------ DocumentProcessor
\* Errors of document_processor.rs are Box<dyn Error>: the boxed source error.
FromUtf8Error == "FromUtf8Error"
PdfError == "pdf_extract::OutputError"

\* DocumentProcessor::extract_pdf_text; pdf is what the extraction library
\* returns for the content.
extract_pdf_text(content, pdf) == pdf

\* process_document up to the assembled ProcessedDocument
ExtractText(document, pdf) ==
    IF document.metadata.content_type = "application/pdf"
    THEN extract_pdf_text(document.content, pdf)
    ELSE from_utf8(document.content)

Assemble_NoMetadata(document, text) ==
    [doc_id |-> document.id, text_content |-> text,
     chunks |-> create_chunks(text),
     metadata |-> [content_type |-> "", size |-> 0]]
Assemble(document, text) ==
    [doc_id |-> document.id, text_content |-> text,
     chunks |-> create_chunks(text), metadata |-> document.metadata]

\* DocumentProcessor::process_document with queue_for_processing
ProcessDocument(document, pdf, out) ==
    /\ nextItem + nextDoc - 2 < MaxProduced
    /\ document.id = nextDoc
    /\ nextDoc' = nextDoc + 1
    /\ LET ex == ExtractText(document, pdf)
           processed == Assemble(document, ex.text)
       IN IF ~ex.ok
          THEN /\ ret' = Err("process_document",
                             IF document.metadata.content_type = "application/pdf"
                             THEN PdfError ELSE FromUtf8Error)
               /\ UNCHANGED processing_queue
          ELSE IF out # "Ok"
          THEN /\ ret' = Err("process_document", "redis::RedisError")
               /\ UNCHANGED processing_queue
          ELSE /\ processing_queue' =
                     lpush(processing_queue, ProcessedDocument_to_string(processed))
               /\ ret' = Ok("process_document", <<processed>>)
    /\ calls' = IF ExtractText(document, pdf).ok
                THEN Issued(<<Connect, "lpush processing_queue">>, out)
                ELSE <<>>
    /\ UNCHANGED <<max_retries, retry_queue, dead_letter_queue, held, pr, nextItem>>
    /\ UNCHANGED researchVars

\* -------------------------------------------------------- ResearchManager
SessionIds == 1..MaxSessions

\* enum ResearchStatus, in declaration order
ResearchStatus ==
    <<"Initializing", "SearchingPapers", "ProcessingDocuments",
      "BuildingKnowledge", "Completed", "Error">>

\* serde_json::to_string(&status): a unit variant is its name as a JSON string
ResearchStatus_to_string(st) ==
    CASE st = "Initializing" -> "\"Initializing\""
      [] st = "SearchingPapers" -> "\"SearchingPapers\""
      [] st = "ProcessingDocuments" -> "\"ProcessingDocuments\""
      [] st = "BuildingKnowledge" -> "\"BuildingKnowledge\""
      [] st = "Completed" -> "\"Completed\""
      [] st = "Error" -> "\"Error\""

\* #[derive(Serialize)] struct ResearchSession (timestamps left out)
ResearchSession_to_string(s) ==
    << <<"id", s.id>>, <<"topic", s.topic>>,
       <<"status", ResearchStatus_to_string(s.status)>>,
       <<"papers_found", s.papers_found>>,
       <<"papers_processed", s.papers_processed>>,
       <<"completion_percentage", s.completion_percentage>> >>

ResearchSessionFields ==
    {"id", "topic", "status", "papers_found", "papers_processed",
     "completion_percentage"}

\* #[derive(Deserialize)] struct ResearchSession
ResearchSession_from_str(data) ==
    IF /\ \A f \in ResearchSessionFields : HasField(data, f)
       /\ \E i \in DOMAIN ResearchStatus :
             ResearchStatus_to_string(ResearchStatus[i]) = GetField(data, "status")
    THEN [ok |-> TRUE,
          session |->
            [id |-> GetField(data, "id"),
             topic |-> GetField(data, "topic"),
             status |-> ResearchStatus[CHOOSE i \in DOMAIN ResearchStatus :
                           ResearchStatus_to_string(ResearchStatus[i])
                             = GetField(data, "status")],
             papers_found |-> GetField(data, "papers_found"),
             papers_processed |-> GetField(data, "papers_processed"),
             completion_percentage |-> GetField(data, "completion_percentage")]]
    ELSE [ok |-> FALSE, session |-> <<>>]

\* A key that was never SET
Nil == "nil"

\* the ResearchSession literal of start_research
NewSession_NoTopic(id, topic) ==
    [id |-> id, topic |-> "", status |-> "Initializing",
     papers_found |-> 0, papers_processed |-> 0, completion_percentage |-> 0]
NewSession(id, topic) ==
    [id |-> id, topic |-> topic, status |-> "Initializing",
     papers_found |-> 0, papers_processed |-> 0, completion_percentage |-> 0]

\* ResearchManager::start_research with queue_research_task
StartResearch(topic, out) ==
    /\ nextSession <= MaxSessions
    /\ nextSession' = nextSession + 1
    /\ LET session == NewSession(nextSession, topic)
       IN /\ active_sessions' = [active_sessions EXCEPT ![nextSession] = <<session>>]
          /\ IF out = "Ok"
             THEN /\ research_queue' =
                        lpush(research_queue, ResearchSession_to_string(session))
                  /\ ret' = Ok("start_research", <<session.id>>)
             ELSE /\ ret' = Err("start_research", RedisError)
                  /\ UNCHANGED research_queue
    /\ UNCHANGED <<status, progress, dr, events>>
    /\ UNCHANGED queueVars

\* #[derive(Deserialize)] struct ResearchProgress: last_processed is an
\* Option and may be absent.
ResearchProgressFields ==
    {"papers_total", "papers_processed", "papers_failed", "current_phase"}

ResearchProgress_from_str(data) ==
    IF \A f \in ResearchProgressFields : HasField(data, f)
    THEN [ok |-> TRUE,
          progress |->
            [papers_total |-> GetField(data, "papers_total"),
             papers_processed |-> GetField(data, "papers_processed"),
             papers_failed |-> GetField(data, "papers_failed"),
             current_phase |-> GetField(data, "current_phase")]]
    ELSE [ok |-> FALSE, progress |-> <<>>]

\* The error of the map_err closure in get_research_status
ParseProgressError == "System"

\* ResearchManager::get_research_status.  GET of a missing key answers nil,
\* which does not convert to String: a RedisError, surfaced through `?`.
GetResearchStatus(id, out) ==
    /\ id < nextSession
    /\ ret' = IF out # "Ok" \/ progress[id] = Nil
              THEN Err("get_research_status", RedisError)
              ELSE LET parsed == ResearchProgress_from_str(progress[id])
                   IN IF parsed.ok
                      THEN Ok("get_research_status", <<parsed.progress>>)
                      ELSE Err("get_research_status", ParseProgressError)
    /\ UNCHANGED researchVars
    /\ UNCHANGED queueVars

\* ResearchManager::update_session_status: the value SET on success
update_session_status(id, st) ==
    [status EXCEPT ![id] = ResearchStatus_to_string(st)]

DrIdle == [pc |-> "idle", session |-> <<>>]

\* One more call made for session id
Record(id, ev, arg) ==
    [events EXCEPT ![id] = Append(@, [ev |-> ev, arg |-> arg])]

\* process_research_queue: get_async_connection
DR_Connect(d, out) ==
    /\ dr[d].pc = "idle"
    /\ IF out = "Ok"
       THEN /\ dr' = [dr EXCEPT ![d].pc = "pop"]
            /\ UNCHANGED ret
       ELSE /\ ret' = Err("process_research_queue", RedisError)
            /\ UNCHANGED dr
    /\ UNCHANGED <<research_queue, status, progress, active_sessions, nextSession,
                   events>>
    /\ UNCHANGED queueVars

\* process_research_queue: the loop head, rpop and from_str
DR_Pop(d, out) ==
    /\ dr[d].pc = "pop"
    /\ IF out # "Ok"
       THEN /\ ret' = Err("process_research_queue", RedisError)
            /\ dr' = [dr EXCEPT ![d] = DrIdle]
            /\ UNCHANGED <<research_queue, events>>
       ELSE IF research_queue = <<>>
       THEN /\ ret' = Ok("process_research_queue", <<>>)
            /\ dr' = [dr EXCEPT ![d] = DrIdle]
            /\ UNCHANGED <<research_queue, events>>
       ELSE LET data == rpop_value(research_queue)
                parsed == ResearchSession_from_str(data)
            IN /\ research_queue' = rpop_rest(research_queue)
               /\ IF parsed.ok
                  THEN /\ dr' = [dr EXCEPT ![d] =
                                    [pc |-> "set_searching", session |-> <<parsed.session>>]]
                       /\ events' = Record(parsed.session.id, "rpop", "")
                       /\ UNCHANGED ret
                  ELSE /\ ret' = Err("process_research_queue", SerdeError)
                       /\ dr' = [dr EXCEPT ![d] = DrIdle]
                       /\ UNCHANGED events
    /\ UNCHANGED <<status, progress, active_sessions, nextSession>>
    /\ UNCHANGED queueVars

\* process_research_session: update_session_status(SearchingPapers).await?
DR_SetSearching(d, out) ==
    /\ dr[d].pc = "set_searching"
    /\ IF out = "Ok"
       THEN /\ status' = update_session_status(dr[d].session[1].id, "SearchingPapers")
            /\ events' = Record(dr[d].session[1].id, "set", "SearchingPapers")
            /\ dr' = [dr EXCEPT ![d].pc = "search_papers"]
       ELSE /\ dr' = [dr EXCEPT ![d].pc = "set_error"]
            /\ UNCHANGED <<status, events>>
    /\ UNCHANGED <<research_queue, progress, active_sessions, nextSession, ret>>
    /\ UNCHANGED queueVars

\* What a phase collaborator may answer.  The bodies in the reference are
\* placeholders that answer Ok(()); the services they stand for may fail.
PhaseResults == {"Ok", "Err"}

\* The phase order of process_research_session, and what follows each phase
\* when it succeeds.
AfterPhase_Swapped(pc) ==
    CASE pc = "search_papers" -> "build_knowledge_base"
      [] pc = "build_knowledge_base" -> "process_documents"
      [] pc = "process_documents" -> "set_completed"
AfterPhase(pc) ==
    CASE pc = "search_papers" -> "process_documents"
      [] pc = "process_documents" -> "build_knowledge_base"
      [] pc = "build_knowledge_base" -> "set_completed"

\* process_research_session: self.<phase>(session).await?
DR_Phase(d, phase, result) ==
    /\ dr[d].pc = phase
    /\ dr' = [dr EXCEPT ![d].pc = IF result = "Ok" THEN AfterPhase(phase) ELSE "set_error"]
    /\ events' = Record(dr[d].session[1].id, phase, result)
    /\ UNCHANGED <<research_queue, status, progress, active_sessions, nextSession, ret>>
    /\ UNCHANGED queueVars

search_papers(d, result) == DR_Phase(d, "search_papers", result)
process_documents(d, result) == DR_Phase(d, "process_documents", result)
build_knowledge_base(d, result) == DR_Phase(d, "build_knowledge_base", result)

\* The status written by each arm of the match in process_research_queue
OkArmStatus_Wrong == "ProcessingDocuments"
OkArmStatus == "Completed"
ErrArmStatus_Completed == "Completed"
ErrArmStatus == "Error"

\* process_research_queue: Ok(_) => update_session_status(Completed).await?
DR_SetCompleted(d, out) ==
    /\ dr[d].pc = "set_completed"
    /\ IF out = "Ok"
       THEN /\ status' = update_session_status(dr[d].session[1].id, OkArmStatus)
            /\ events' = Record(dr[d].session[1].id, "set", OkArmStatus)
            /\ dr' = [dr EXCEPT ![d] = [pc |-> "pop", session |-> <<>>]]
            /\ UNCHANGED ret
       ELSE /\ ret' = Err("process_research_queue", RedisError)
            /\ dr' = [dr EXCEPT ![d] = DrIdle]
            /\ UNCHANGED <<status, events>>
    /\ UNCHANGED <<research_queue, progress, active_sessions, nextSession>>
    /\ UNCHANGED queueVars

\* process_research_queue: Err(e) => update_session_status(Error).await?
DR_SetError(d, out) ==
    /\ dr[d].pc = "set_error"
    /\ IF out = "Ok"
       THEN /\ status' = update_session_status(dr[d].session[1].id, ErrArmStatus)
            /\ events' = Record(dr[d].session[1].id, "set", ErrArmStatus)
            /\ dr' = [dr EXCEPT ![d] = [pc |-> "pop", session |-> <<>>]]
            /\ UNCHANGED ret
       ELSE /\ ret' = Err("process_research_queue", RedisError)
            /\ dr' = [dr EXCEPT ![d] = DrIdle]
            /\ UNCHANGED <<status, events>>
    /\ UNCHANGED <<research_queue, progress, active_sessions, nextSession>>
    /\ UNCHANGED queueVars

\* process_research_queue dropped by its caller while suspended at one of
\* its .await points: nothing further runs and nothing is returned.
DR_Abandon_Requeue(d) ==
    /\ dr[d].pc # "idle"
    /\ dr' = [dr EXCEPT ![d] = DrIdle]
    /\ research_queue' =
          IF dr[d].session = <<>> THEN research_queue
          ELSE lpush(research_queue, ResearchSession_to_string(dr[d].session[1]))
    /\ UNCHANGED <<status, progress, active_sessions, nextSession, events, ret>>
    /\ UNCHANGED queueVars
DR_Abandon(d) ==
    /\ dr[d].pc # "idle"
    /\ dr' = [dr EXCEPT ![d] = DrIdle]
    /\ UNCHANGED <<research_queue, status, progress, active_sessions, nextSession,
                   events, ret>>
    /\ UNCHANGED queueVars

\* ResearchManager::cleanup_old_sessions
CleanupOldSessions_Purging(age_hours, out) ==
    LET old == {id \in SessionIds :
                  active_sessions[id] # <<>> /\ status[id] # Nil /\ age_hours = 0}
    IN /\ ret' = IF out = "Ok"
                 THEN Ok("cleanup_old_sessions", <<Cardinality(old)>>)
                 ELSE Err("cleanup_old_sessions", RedisError)
       /\ active_sessions' =
             IF out = "Ok"
             THEN [id \in SessionIds |-> IF id \in old THEN <<>> ELSE active_sessions[id]]
             ELSE active_sessions
       /\ UNCHANGED <<research_queue, status, progress, dr, nextSession, events>>
       /\ UNCHANGED queueVars
CleanupOldSessions(age_hours, out) ==
    /\ ret' = IF out = "Ok"
              THEN Ok("cleanup_old_sessions", <<0>>)
              ELSE Err("cleanup_old_sessions", RedisError)
    /\ UNCHANGED researchVars
    /\ UNCHANGED queueVars

\* --------------------------------------------------------- specifications
\* QueueHandler::new, DocumentProcessor::new, ResearchManager::new and an
\* empty store.
Init ==
    /\ max_retries \in 0..MaxRetriesBound
    /\ processing_queue = <<>>
    /\ retry_queue = <<>>
    /\ dead_letter_queue = <<>>
    /\ held = {}
    /\ pr = [w \in RetryCallers |-> PrIdle]
    /\ nextItem = 1
    /\ nextDoc = 1
    /\ calls = <<>>
    /\ research_queue = <<>>
    /\ status = [id \in SessionIds |-> Nil]
    /\ progress = [id \in SessionIds |-> Nil]
    /\ active_sessions = [id \in SessionIds |-> <<>>]
    /\ dr = [d \in Drainers |-> DrIdle]
    /\ nextSession = 1
    /\ events = [id \in SessionIds |-> <<>>]
    /\ ret = Ok("new", <<>>)

\* Items a producer hands to enqueue: a fresh id, retry_count 0.
NewItems ==
    {[id |-> nextItem, priority |-> p, retry_count |-> 0, payload |-> pl] :
        p \in Priorities, pl \in Payloads}

\* Documents handed to process_document beside the queue traffic, and what
\* the PDF extraction library may answer for them.
QueueDocuments ==
    {[id |-> nextDoc, content |-> c,
      metadata |-> [content_type |-> t, size |-> Len(c)]] :
        c \in {<<97>>, <<255>>}, t \in {"text/plain", "application/pdf"}}
QueuePdfResults == {[ok |-> FALSE, text |-> <<>>], [ok |-> TRUE, text |-> <<"a">>]}

NextQueue ==
    \/ \E item \in NewItems, out \in StoreOutcomes : Enqueue(item, out)
    \/ \E out \in StoreOutcomes, keep \in BOOLEAN : Dequeue(out, keep)
    \/ \E item \in held, out \in StoreOutcomes : Retry(item, out)
    \/ \E w \in RetryCallers, out \in StoreOutcomes : PR_Connect(w, out)
    \/ \E w \in RetryCallers, out \in StoreOutcomes : PR_Pop(w, out)
    \/ \E w \in RetryCallers, out \in StoreOutcomes : PR_Enqueue(w, out)
    \/ \E out \in StoreOutcomes : GetQueueLength(out)
    \/ \E document \in QueueDocuments, pdf \in QueuePdfResults, out \in StoreOutcomes :
          ProcessDocument(document, pdf, out)

SpecQueue == Init /\ [][NextQueue]_vars

\* The queue handler's five operations, with every store call of each able
\* to be the one that fails; one caller of process_retries.
StoreFailures == {"Ok", "Err1", "Err2", "Err"}

NextStore ==
    \/ \E item \in NewItems, out \in StoreFailures : Enqueue(item, out)
    \/ \E out \in StoreFailures, keep \in BOOLEAN : Dequeue(out, keep)
    \/ \E item \in held, out \in StoreFailures : Retry(item, out)
    \/ \E out \in StoreFailures : PR_Connect(1, out)
    \/ \E out \in StoreFailures : PR_Pop(1, out)
    \/ \E out \in StoreFailures : PR_Enqueue(1, out)
    \/ \E out \in StoreFailures : GetQueueLength(out)

\* max_retries is fixed at the largest value, which lets an item travel the
\* retry path before it is dead-lettered.
InitStore == Init /\ max_retries = MaxRetriesBound

SpecStore == InitStore /\ [][NextStore]_vars

AgeHours == {0, 24}

NextResearch ==
    \/ \E topic \in Topics, out \in StoreOutcomes : StartResearch(topic, out)
    \/ \E id \in SessionIds, out \in StoreOutcomes : GetResearchStatus(id, out)
    \/ \E d \in Drainers, out \in StoreOutcomes : DR_Connect(d, out)
    \/ \E d \in Drainers, out \in StoreOutcomes : DR_Pop(d, out)
    \/ \E d \in Drainers, out \in StoreOutcomes : DR_SetSearching(d, out)
    \/ \E d \in Drainers, result \in PhaseResults : search_papers(d, result)
    \/ \E d \in Drainers, result \in PhaseResults : process_documents(d, result)
    \/ \E d \in Drainers, result \in PhaseResults : build_knowledge_base(d, result)
    \/ \E d \in Drainers, out \in StoreOutcomes : DR_SetCompleted(d, out)
    \/ \E d \in Drainers, out \in StoreOutcomes : DR_SetError(d, out)
    \/ \E d \in Drainers : DR_Abandon(d)
    \/ \E age \in AgeHours, out \in StoreOutcomes : CleanupOldSessions(age, out)

\* The research manager has no max_retries: one value of the handler's
\* setting stands for all of them.
InitResearch == Init /\ max_retries = 0

SpecResearch == InitResearch /\ [][NextResearch]_vars

\* The queue handler with every store call succeeding, one worker and one
\* caller of process_retries.  The worker takes one item at a time: it
\* dequeues, and either is done with the item or hands it to retry before it
\* dequeues again.  The worker keeps polling and process_retries keeps being
\* invoked: weak fairness on both.
WorkerDequeue(keep) == held = {} /\ Dequeue("Ok", keep)
Worker ==
    \/ \E keep \in BOOLEAN : WorkerDequeue(keep)
    \/ \E item \in held : Retry(item, "Ok")
RetriesRun(w) ==
    \/ PR_Connect(w, "Ok")
    \/ PR_Pop(w, "Ok")
    \/ PR_Enqueue(w, "Ok")
Produce == \E item \in NewItems : Enqueue(item, "Ok")

NextLive ==
    \/ Produce
    \/ Worker
    \/ RetriesRun(1)

SpecLive == Init /\ [][NextLive]_vars /\ WF_vars(Worker) /\ WF_vars(RetriesRun(1))

\* One call of process_retries at a time, running alone and awaited to its
\* end, with every store call succeeding: producers, consumers and retry act
\* only between the calls.
BetweenPasses ==
    /\ \A w \in RetryCallers : pr[w].pc = "idle"
    /\ \/ Produce
       \/ \E keep \in BOOLEAN : Dequeue("Ok", keep)
       \/ \E item \in held : Retry(item, "Ok")

NextPass ==
    \/ BetweenPasses
    \/ RetriesRun(1)

SpecPass == Init /\ [][NextPass]_vars /\ WF_vars(RetriesRun(1))

\* Two process_retries calls running concurrently beside a producer and a
\* consumer, with every store call succeeding.
NextRetries ==
    \/ Produce
    \/ \E keep \in BOOLEAN : Dequeue("Ok", keep)
    \/ \E item \in held : Retry(item, "Ok")
    \/ \E w \in RetryCallers : RetriesRun(w)

SpecRetries == Init /\ [][NextRetries]_vars

\* The document processor alone, on text/plain documents of every content
\* of letters and line feeds up to MaxLen bytes (the empty content included).
\* extract_pdf_text is not called for them.
TextBytes == {97, 10}
Contents == UNION {[1..n -> TextBytes] : n \in 0..MaxLen}
DocDocuments ==
    {[id |-> nextDoc, content |-> c,
      metadata |-> [content_type |-> "text/plain", size |-> Len(c)]] :
        c \in Contents}
NoPdf == [ok |-> FALSE, text |-> <<>>]

NextDoc ==
    \E document \in DocDocuments, out \in StoreOutcomes :
        ProcessDocument(document, NoPdf, out)

InitDoc == Init /\ max_retries = 0

SpecDoc == InitDoc /\ [][NextDoc]_vars

\* The research manager with every store call succeeding and no invocation
\* abandoned: sessions are started and drained by concurrent invocations of
\* process_research_queue, and a phase may fail.
StoreSucceeds == {"Ok"}

NextResearchOk ==
    \/ \E topic \in Topics, out \in StoreSucceeds : StartResearch(topic, out)
    \/ \E d \in Drainers, out \in StoreSucceeds : DR_Connect(d, out)
    \/ \E d \in Drainers, out \in StoreSucceeds : DR_Pop(d, out)
    \/ \E d \in Drainers, out \in StoreSucceeds : DR_SetSearching(d, out)
    \/ \E d \in Drainers, result \in PhaseResults : search_papers(d, result)
    \/ \E d \in Drainers, result \in PhaseResults : process_documents(d, result)
    \/ \E d \in Drainers, result \in PhaseResults : build_knowledge_base(d, result)
    \/ \E d \in Drainers, out \in StoreSucceeds : DR_SetCompleted(d, out)
    \/ \E d \in Drainers, out \in StoreSucceeds : DR_SetError(d, out)

SpecResearchOk == InitResearch /\ [][NextResearchOk]_vars

\* One invocation of process_research_queue at a time, awaited to its end,
\* with every store call succeeding and start_research called only between
\* invocations.  The caller's .await keeps polling the future, so a step the
\* invocation can take is eventually taken.
DrainRun(d) ==
    \/ \E out \in StoreSucceeds : DR_Connect(d, out)
    \/ \E out \in StoreSucceeds : DR_Pop(d, out)
    \/ \E out \in StoreSucceeds : DR_SetSearching(d, out)
    \/ \E result \in PhaseResults : search_papers(d, result)
    \/ \E result \in PhaseResults : process_documents(d, result)
    \/ \E result \in PhaseResults : build_knowledge_base(d, result)
    \/ \E out \in StoreSucceeds : DR_SetCompleted(d, out)
    \/ \E out \in StoreSucceeds : DR_SetError(d, out)

StartBetweenDrains(topic) ==
    /\ \A d \in Drainers : dr[d].pc = "idle"
    /\ StartResearch(topic, "Ok")

NextDrain ==
    \/ \E topic \in Topics : StartBetweenDrains(topic)
    \/ DrainRun(1)

SpecDrain == InitResearch /\ [][NextDrain]_vars /\ WF_vars(DrainRun(1))

\* ================================================================= claims
\* The QueueItems among the entries of a list, and where items are.
ItemsOn(list) ==
    {QueueItem_from_str(list[i]).item :
        i \in {j \in DOMAIN list : QueueItem_from_str(list[j]).ok}}
IdsOf(items) == {it.id : it \in items}
InHand == {pr[w].item[1] : w \in {v \in RetryCallers : pr[v].item # <<>>}}
RemoveAt(list, i) == SubSeq(list, 1, i - 1) \o SubSeq(list, i + 1, Len(list))
\* list2 is list with the one entry e added (anywhere)
Gained(list, list2, e) ==
    \E i \in DOMAIN list2 : list2[i] = e /\ RemoveAt(list2, i) = list
DequeuedSome == ret.op = "dequeue" /\ ret.res = "Ok" /\ ret.val # <<>>

\* C1 -- FIFO delivery.  Producers' items get ids in the order of their
\* enqueue calls.  Whenever dequeue returns an item that came from a
\* producer's enqueue (retry_count 0), every such item still on
\* processing_queue was enqueued after it, so successive dequeue calls return
\* the items in the order they were enqueued; and dequeue returns none only
\* when no such item is left on processing_queue.
C1_FifoDelivery ==
    /\ (DequeuedSome /\ ret.val[1].retry_count = 0) =>
          \A it \in ItemsOn(processing_queue) :
              it.retry_count = 0 => it.id > ret.val[1].id
    /\ (ret.op = "dequeue" /\ ret.res = "Ok" /\ ret.val = <<>>) =>
          \A it \in ItemsOn(processing_queue) : it.retry_count # 0

\* Item 1 was returned by dequeue while item 2, enqueued after it, waits.
C1_Witness ==
    /\ DequeuedSome
    /\ ret.val[1].id = 1
    /\ ret.val[1].retry_count = 0
    /\ \E it \in ItemsOn(processing_queue) : it.id = 2 /\ it.retry_count = 0

\* C2 -- Retry exhaustion is terminal.  (a) No item that has been retried
\* max_retries times is on processing_queue or retry_queue, with a consumer
\* or in the hands of process_retries: the retry that made its count reach
\* max_retries put it on dead_letter_queue.  (b) An item on dead_letter_queue
\* is nowhere else.  (c) No step removes or changes an entry of
\* dead_letter_queue.
C2_Exhausted(it) == it.retry_count >= 1 /\ it.retry_count >= max_retries
C2_State ==
    /\ \A it \in ItemsOn(processing_queue) \cup ItemsOn(retry_queue)
                 \cup held \cup InHand : ~C2_Exhausted(it)
    /\ IdsOf(ItemsOn(dead_letter_queue))
          \cap IdsOf(ItemsOn(processing_queue) \cup ItemsOn(retry_queue)
                      \cup held \cup InHand) = {}
C2_Step ==
    /\ \A i \in DOMAIN dead_letter_queue :
          /\ Len(dead_letter_queue') >= Len(dead_letter_queue)
          /\ dead_letter_queue'[i + Len(dead_letter_queue') - Len(dead_letter_queue)]
               = dead_letter_queue[i]
    /\ \A item \in held :
          (item \notin held' /\ ret'.op = "retry" /\ ret'.res = "Ok"
             /\ item.retry_count + 1 = max_retries) =>
          [item EXCEPT !.retry_count = max_retries] \in ItemsOn(dead_letter_queue')
C2_RetryExhaustionTerminal == [](C2_State) /\ [][C2_Step]_vars

\* An item retried max_retries = 2 times is dead-lettered while another item
\* is still being worked on.
C2_Witness ==
    /\ max_retries = 2
    /\ \E it \in ItemsOn(dead_letter_queue) : it.retry_count = 2
    /\ ItemsOn(processing_queue) \cup ItemsOn(retry_queue) # {}

\* C3 -- Priority promotion.  What process_retries takes off retry_queue it
\* holds with the priority raised by exactly 1 and id, retry_count and
\* payload as stored by retry; and what it holds is what its enqueue adds to
\* processing_queue.
C3_Step ==
    \A w \in RetryCallers :
        /\ (pr[w].pc = "pop" /\ pr'[w].pc = "enqueue") =>
              LET stored == QueueItem_from_str(retry_queue[Len(retry_queue)]).item
                  taken == pr'[w].item[1]
              IN /\ retry_queue' = SubSeq(retry_queue, 1, Len(retry_queue) - 1)
                 /\ taken.priority = stored.priority + 1
                 /\ taken.retry_count = stored.retry_count
                 /\ taken.id = stored.id
                 /\ taken.payload = stored.payload
        /\ (pr[w].pc = "enqueue" /\ pr'[w].pc = "pop") =>
              /\ Len(processing_queue') = Len(processing_queue) + 1
              /\ ItemsOn(processing_queue')
                   = ItemsOn(processing_queue) \cup {pr[w].item[1]}
C3_PriorityPromotion == [][C3_Step]_vars

\* An item retried once is back on processing_queue with its priority raised.
C3_Witness ==
    \E it \in ItemsOn(processing_queue) :
        it.retry_count = 1 /\ it.priority \in {p + 1 : p \in Priorities}

\* C4, first half -- retry_count bound: every item stored on one of the three
\* lists has retry_count <= max_retries, for every max_retries >= 0.
C4_RetryCountBounded ==
    \A it \in ItemsOn(processing_queue) \cup ItemsOn(retry_queue)
                \cup ItemsOn(dead_letter_queue) :
        it.retry_count <= max_retries

\* C4, second half -- the retry_count of an item never decreases from one
\* state to the next, wherever the item is.
AllItems ==
    ItemsOn(processing_queue) \cup ItemsOn(retry_queue)
        \cup ItemsOn(dead_letter_queue) \cup held \cup InHand
C4_MonotoneStep ==
    \A a \in AllItems : \A b \in AllItems' :
        a.id = b.id => b.retry_count >= a.retry_count
C4_RetryCountMonotone == [][C4_MonotoneStep]_vars

\* C5 -- Routing rule of retry.  A successful retry(item) adds the item, with
\* retry_count raised by exactly 1, to dead_letter_queue if the new count is
\* >= max_retries and to retry_queue otherwise, and leaves the other two
\* lists as they were.
C5_Step ==
    \A item \in held :
        (item \notin held' /\ ret'.op = "retry" /\ ret'.res = "Ok") =>
        LET stored == QueueItem_to_string(
                          [item EXCEPT !.retry_count = item.retry_count + 1])
        IN /\ processing_queue' = processing_queue
           /\ IF item.retry_count + 1 >= max_retries
              THEN /\ Gained(dead_letter_queue, dead_letter_queue', stored)
                   /\ retry_queue' = retry_queue
              ELSE /\ Gained(retry_queue, retry_queue', stored)
                   /\ dead_letter_queue' = dead_letter_queue
C5_RetryRouting == [][C5_Step]_vars

\* retry has just succeeded, and both branches have been taken in this run.
C5_Witness ==
    /\ ret.op = "retry" /\ ret.res = "Ok"
    /\ dead_letter_queue # <<>>
    /\ retry_queue # <<>>

\* C6 -- Dead-lettering is not an error: the step that pushes an item onto
\* dead_letter_queue is a retry that returns Ok(()).
C6_Step ==
    dead_letter_queue' # dead_letter_queue =>
        ret' = [op |-> "retry", res |-> "Ok", err |-> "", val |-> <<>>]
C6_DeadLetterReturnsOk == [][C6_Step]_vars

\* With max_retries = 0 the first retry is already the exhaustion branch.
C6_Witness ==
    /\ max_retries = 0
    /\ ret.op = "retry" /\ ret.res = "Ok"
    /\ Len(dead_letter_queue) = 1

\* C7 -- Corrupt payload on dequeue: when dequeue has returned the
\* deserialization error, the corrupt entry is still at the pop end of
\* processing_queue.
C7_CorruptEntryKept ==
    (ret.op = "dequeue" /\ ret.res = "Err" /\ ret.err = SerdeError) =>
        /\ processing_queue # <<>>
        /\ ~QueueItem_from_str(processing_queue[Len(processing_queue)]).ok

\* C8 -- Producer/consumer compatibility: after a successful
\* process_document, processing_queue holds a QueueItem with retry_count 0
\* whose payload is the returned ProcessedDocument.
C8_DocumentQueuedAsItem ==
    (ret.op = "process_document" /\ ret.res = "Ok") =>
        \E it \in ItemsOn(processing_queue) :
            it.retry_count = 0 /\ it.payload = ret.val[1]

\* The status of a session: the value under research:{id}:status, and the
\* Initializing of the session start_research built while the key is unset.
StatusOf(st, id) ==
    IF st[id] = Nil THEN "Initializing"
    ELSE ResearchStatus[CHOOSE i \in DOMAIN ResearchStatus :
                           ResearchStatus_to_string(ResearchStatus[i]) = st[id]]
Rank(name) == CHOOSE i \in DOMAIN ResearchStatus : ResearchStatus[i] = name
Terminal == {"Completed", "Error"}

\* C9 -- Session terminal states are absorbing: no step changes the persisted
\* status of a session whose persisted status is Completed or Error.
C9_Step ==
    \A id \in SessionIds :
        (status[id] # Nil /\ StatusOf(status, id) \in Terminal) =>
            status'[id] = status[id]
C9_TerminalAbsorbing == [][C9_Step]_vars

\* One session is Completed, another Error, and both drains have returned.
C9_Witness ==
    /\ \E id \in SessionIds : status[id] # Nil /\ StatusOf(status, id) = "Completed"
    /\ \E id \in SessionIds : status[id] # Nil /\ StatusOf(status, id) = "Error"
    /\ \A d \in Drainers : dr[d].pc = "idle"

\* C10 as claimed -- Ordered status progression: every change of a session's
\* status goes to the next status in the order Initializing, SearchingPapers,
\* ProcessingDocuments, BuildingKnowledge, Completed, or from a non-terminal
\* status to Error.
C10_StepClaimed ==
    \A id \in SessionIds :
        LET old == StatusOf(status, id)
            new == StatusOf(status', id)
        IN new # old =>
             \/ new # "Error" /\ Rank(new) = Rank(old) + 1
             \/ new = "Error" /\ old \notin Terminal
C10_OrderedProgressionClaimed == [][C10_StepClaimed]_vars

\* C10 as amended -- the status of a session follows Initializing ->
\* SearchingPapers -> Completed: ProcessingDocuments and BuildingKnowledge are
\* never written, Completed is reached only from SearchingPapers, the status
\* never moves backward, and the only other change is from Initializing or
\* SearchingPapers to Error.
C10_Step ==
    \A id \in SessionIds :
        LET old == StatusOf(status, id)
            new == StatusOf(status', id)
        IN new # old =>
             \/ old = "Initializing" /\ new = "SearchingPapers"
             \/ old = "SearchingPapers" /\ new = "Completed"
             \/ old \in {"Initializing", "SearchingPapers"} /\ new = "Error"
C10_StatusProgression == [][C10_Step]_vars

\* A session has gone all the way to Completed.
C10_Witness ==
    \E id \in SessionIds : StatusOf(status, id) = "Completed"

\* What process_research_queue did for a session, from its call history.
Held(id) == \E d \in Drainers : dr[d].session # <<>> /\ dr[d].session[1].id = id
OnResearchQueue(id) ==
    \E i \in DOMAIN research_queue :
        ResearchSession_from_str(research_queue[i]).ok
        /\ ResearchSession_from_str(research_queue[i]).session.id = id
Phases == {"search_papers", "process_documents", "build_knowledge_base"}
PhaseFailed(id) ==
    \E i \in DOMAIN events[id] : events[id][i].ev \in Phases /\ events[id][i].arg = "Err"
Returns(d) == dr[d].pc # "idle" /\ dr'[d].pc = "idle"

\* C11 -- Phase failure is isolated (store calls succeeding).  (a) Once the
\* invocation that popped a session for which a phase failed has let go of
\* it, the persisted status of that session is Error.  (b) The invocation
\* leaves the Err arm for the loop head without returning anything.  (c) An
\* invocation returns only from the loop head, with research_queue empty and
\* with success: the phase error is never what it returns.
C11_State ==
    \A id \in SessionIds :
        (PhaseFailed(id) /\ ~Held(id)) => StatusOf(status, id) = "Error"
C11_Step ==
    \A d \in Drainers :
        /\ (dr[d].pc = "set_error" /\ dr'[d] # dr[d]) =>
              dr'[d].pc = "pop" /\ ret' = ret
        /\ Returns(d) =>
              /\ dr[d].pc = "pop"
              /\ research_queue = <<>>
              /\ ret' = Ok("process_research_queue", <<>>)
C11_PhaseFailureIsolated == [](C11_State) /\ [][C11_Step]_vars

\* A phase failed for session 1, which is Error; session 2, queued behind
\* it, was processed to Completed, and the drain returned success.
C11_Witness ==
    /\ PhaseFailed(1)
    /\ StatusOf(status, 1) = "Error"
    /\ StatusOf(status, 2) = "Completed"
    /\ \A d \in Drainers : dr[d].pc = "idle"
    /\ ret = Ok("process_research_queue", <<>>)

\* The call history a single sequential drain gives a session: rpop, the
\* SearchingPapers write, the phases in order up to the first that fails, and
\* the one terminal write that the answer of the phases decides.
Ev(ev, arg) == [ev |-> ev, arg |-> arg]
PhaseOrder == <<"search_papers", "process_documents", "build_knowledge_base">>
SequentialHistories ==
    LET start == <<Ev("rpop", ""), Ev("set", "SearchingPapers")>>
        oks(k) == [i \in 1..k |-> Ev(PhaseOrder[i], "Ok")]
    IN {start \o oks(3) \o <<Ev("set", "Completed")>>}
       \cup {start \o oks(k - 1) \o <<Ev(PhaseOrder[k], "Err"), Ev("set", "Error")>> :
                k \in 1..3}
IsPrefix(s, t) == Len(s) <= Len(t) /\ SubSeq(t, 1, Len(s)) = s
Started(id) == id < nextSession
QueuedIds ==
    [i \in DOMAIN research_queue |-> ResearchSession_from_str(research_queue[i]).session.id]

\* C12 -- Concurrent drains are safe (store calls succeeding).  Under every
\* interleaving of two invocations of process_research_queue with each other
\* and with start_research: (a) a session is in one place only -- once on
\* research_queue and not yet popped, or popped and with at most one
\* invocation; (b) the calls made for a session are a prefix of what one
\* sequential drain does for it, so it is popped once, each phase runs once
\* and one terminal status is written; (c) once the invocation has let go of
\* a popped session its history is a complete sequential one and its
\* persisted status is the terminal status of that history; (d) when every
\* invocation has returned and research_queue is empty, every started session
\* is in that final condition.
C12_ConcurrentDrainsSafe ==
    /\ \A i, j \in DOMAIN research_queue : QueuedIds[i] = QueuedIds[j] => i = j
    /\ \A d1, d2 \in Drainers :
          (dr[d1].session # <<>> /\ dr[d2].session # <<>>
             /\ dr[d1].session[1].id = dr[d2].session[1].id) => d1 = d2
    /\ \A id \in SessionIds :
          /\ OnResearchQueue(id) => (events[id] = <<>> /\ ~Held(id))
          /\ Held(id) => events[id] # <<>>
          /\ \E h \in SequentialHistories : IsPrefix(events[id], h)
          /\ (events[id] # <<>> /\ ~Held(id)) =>
                /\ events[id] \in SequentialHistories
                /\ StatusOf(status, id) = events[id][Len(events[id])].arg
    /\ ((\A d \in Drainers : dr[d].pc = "idle") /\ research_queue = <<>>) =>
          \A id \in SessionIds :
              Started(id) => events[id] \in SequentialHistories

\* Two invocations are processing two different sessions at the same time,
\* one about to write Completed and one about to write Error.
C12_Witness ==
    /\ dr[1].pc = "set_completed"
    /\ dr[2].pc = "set_error"
    /\ dr[1].session[1].id # dr[2].session[1].id

\* The drain loop has processed session id: it was popped and the
\* invocation that popped it wrote its terminal status.
Processed(id) ==
    /\ events[id] # <<>>
    /\ ~Held(id)
    /\ StatusOf(status, id) \in Terminal

\* C13 -- The outcome of a processed session is visible through
\* get_research_status: for a session the drain loop has processed,
\* get_research_status(id), with the store answering, succeeds and returns a
\* progress record whose current phase is the recorded status.
C13_Step ==
    \A id \in SessionIds :
        (GetResearchStatus(id, "Ok") /\ Processed(id)) =>
            /\ ret'.res = "Ok"
            /\ ret'.val[1].current_phase = StatusOf(status, id)
C13_OutcomeVisible == [][C13_Step]_vars

\* No progress record exists for id, or the record does not parse.
NoUsableProgress(id) ==
    \/ progress[id] = Nil
    \/ ~ResearchProgress_from_str(progress[id]).ok

\* C14 -- get_research_status on a missing or malformed record: whenever no
\* progress record exists for the id (in particular right after
\* start_research) or the record is malformed, get_research_status, with the
\* store answering, fails with a System error, and the call changes no list,
\* record or table entry.
C14_Step ==
    \A id \in SessionIds :
        (GetResearchStatus(id, "Ok") /\ NoUsableProgress(id)) =>
            /\ ret' = Err("get_research_status", "System")
            /\ UNCHANGED <<queueVars, researchVars>>
C14_MissingRecordIsSystemError == [][C14_Step]_vars

\* The half of C14 that holds: the call changes nothing but what it returns,
\* and what it returns is an error fixed by the state.
C14_ReadOnlyStep ==
    \A id \in SessionIds, out \in StoreOutcomes :
        (GetResearchStatus(id, out) /\ NoUsableProgress(id)) =>
            /\ ret'.res = "Err"
            /\ UNCHANGED <<queueVars, researchVars>>
C14_ReadOnly == [][C14_ReadOnlyStep]_vars

\* C15 -- start_research postcondition.  When start_research returns an id:
\* the table maps the id to a session with that id, the topic asked for,
\* status Initializing, papers_found = papers_processed = 0 and completion 0;
\* research_queue is what it was with one entry more, at the push end, and
\* that entry is the serialized form of the same session; no status and no
\* progress record exists for the id; no other table entry or record changed.
C15_Step ==
    (ret' # ret /\ ret'.op = "start_research" /\ ret'.res = "Ok") =>
        LET id == ret'.val[1]
            s == active_sessions'[id][1]
        IN /\ active_sessions[id] = <<>>
           /\ active_sessions' = [active_sessions EXCEPT ![id] = <<s>>]
           /\ s.id = id
           /\ s.topic \in Topics
           /\ s.status = "Initializing"
           /\ s.papers_found = 0 /\ s.papers_processed = 0
           /\ s.completion_percentage = 0
           /\ research_queue' = <<ResearchSession_to_string(s)>> \o research_queue
           /\ ResearchSession_from_str(research_queue'[1]).ok
           /\ ResearchSession_from_str(research_queue'[1]).session = s
           /\ status'[id] = Nil /\ progress'[id] = Nil
           /\ UNCHANGED <<status, progress>>
C15_StartResearchPostcondition == [][C15_Step]_vars

\* The second start_research returned while the entry of the first is still
\* queued: research_queue holds both, the newer at the push end.
C15_Witness ==
    /\ ret = Ok("start_research", <<2>>)
    /\ Len(research_queue) = 2
    /\ ResearchSession_from_str(research_queue[1]).session.id = 2
    /\ status[2] = Nil

\* C16 -- At-most-once session processing, with store failures and
\* abandoned invocations.  (a) research_queue changes only by losing the entry
\* at its pop end or by start_research adding the entry of a fresh session at
\* its push end: the drain never pushes.  (b) A session id is on
\* research_queue at most once, and is popped at most once.  (c) A session
\* that has been popped -- whether it then completed, errored, or was with an
\* invocation that failed or was abandoned -- is not on research_queue again.
C16_State ==
    /\ \A i, j \in DOMAIN research_queue : QueuedIds[i] = QueuedIds[j] => i = j
    /\ \A id \in SessionIds :
          /\ Cardinality({i \in DOMAIN events[id] : events[id][i].ev = "rpop"}) <= 1
          /\ events[id] # <<>> => ~OnResearchQueue(id)
C16_Step ==
    research_queue' # research_queue =>
        \/ /\ research_queue # <<>>
           /\ research_queue' = SubSeq(research_queue, 1, Len(research_queue) - 1)
        \/ /\ nextSession' = nextSession + 1
           /\ ret' = Ok("start_research", <<nextSession>>)
           /\ Len(research_queue') = Len(research_queue) + 1
           /\ SubSeq(research_queue', 2, Len(research_queue')) = research_queue
           /\ ResearchSession_from_str(research_queue'[1]).session.id = nextSession
C16_AtMostOnce == [](C16_State) /\ [][C16_Step]_vars

\* Session 1 was popped by an invocation that was then abandoned (nothing has
\* returned since start_research): it has no terminal status, no invocation
\* runs, and research_queue is empty.
C16_Witness ==
    /\ ret = Ok("start_research", <<1>>)
    /\ events[1] # <<>>
    /\ StatusOf(status, 1) \notin Terminal
    /\ \A d \in Drainers : dr[d].pc = "idle"
    /\ research_queue = <<>>

\* C17 -- Drain until empty.  With store calls succeeding, every queued
\* entry well-formed and no start_research while it runs, one invocation of
\* process_research_queue (a) returns only with success, research_queue empty
\* and every session started so far in a terminal persisted status, and
\* (b) does return: a running invocation leads to that condition.
Drained ==
    /\ dr[1].pc = "idle"
    /\ ret = Ok("process_research_queue", <<>>)
    /\ research_queue = <<>>
    /\ \A id \in SessionIds :
          Started(id) => (status[id] # Nil /\ StatusOf(status, id) \in Terminal)
C17_Step == Returns(1) => Drained'
C17_DrainUntilEmpty ==
    /\ [][C17_Step]_vars
    /\ (dr[1].pc # "idle") ~> Drained

\* One invocation found two sessions queued and has returned: both have a
\* terminal status, one of each kind.
C17_Witness ==
    /\ Drained
    /\ Len(events[1]) > 1 /\ Len(events[2]) > 1
    /\ events[2][1] = Ev("rpop", "")
    /\ StatusOf(status, 1) = "Completed"
    /\ StatusOf(status, 2) = "Error"

\* C18 -- get_queue_length is read-only: a call of get_queue_length, whether
\* it succeeds or fails, leaves the contents and the order of
\* processing_queue, retry_queue and dead_letter_queue exactly as they were.
C18_Step ==
    ((\E out \in StoreOutcomes : GetQueueLength(out))
        \/ (ret' # ret /\ ret'.op = "get_queue_length")) =>
        UNCHANGED <<processing_queue, retry_queue, dead_letter_queue>>
C18_GetQueueLengthReadOnly == [][C18_Step]_vars

\* get_queue_length answered while processing_queue and retry_queue hold
\* one entry each, and both entries are still there.
C18_Witness ==
    /\ ret = Ok("get_queue_length", <<1, 1>>)
    /\ Len(processing_queue) = 1
    /\ Len(retry_queue) = 1

\* C19 -- Queue failure in process_document: when the store connection or the
\* push fails for a document whose text was extracted, process_document
\* returns a Queue error, returns no ProcessedDocument, and processing_queue
\* gains no entry.
C19_Step ==
    \A document \in QueueDocuments, pdf \in QueuePdfResults :
        (ProcessDocument(document, pdf, "Err") /\ ExtractText(document, pdf).ok) =>
            /\ ret' = Err("process_document", "Queue")
            /\ processing_queue' = processing_queue
C19_QueueFailureIsQueueError == [][C19_Step]_vars

\* The half of C19 that holds: an error is returned, without a
\* ProcessedDocument, and nothing is queued.
C19_NothingQueuedStep ==
    \A document \in QueueDocuments, pdf \in QueuePdfResults :
        (ProcessDocument(document, pdf, "Err") /\ ExtractText(document, pdf).ok) =>
            /\ ret'.res = "Err" /\ ret'.val = <<>>
            /\ processing_queue' = processing_queue
C19_NothingQueued == [][C19_NothingQueuedStep]_vars

\* C20 -- Extraction failure in process_document: for content that is not
\* UTF-8 with a content_type other than application/pdf, and for
\* application/pdf content on which extraction fails, process_document
\* returns a TextExtraction error and pushes nothing onto processing_queue.
C20_Step ==
    \A document \in QueueDocuments, pdf \in QueuePdfResults, out \in StoreOutcomes :
        (ProcessDocument(document, pdf, out) /\ ~ExtractText(document, pdf).ok) =>
            /\ ret' = Err("process_document", "TextExtraction")
            /\ processing_queue' = processing_queue
C20_ExtractionFailureIsTextExtraction == [][C20_Step]_vars

\* The half of C20 that holds: an error value is returned, without a
\* ProcessedDocument and so without chunks, and nothing is queued.
C20_NothingQueuedStep ==
    \A document \in QueueDocuments, pdf \in QueuePdfResults, out \in StoreOutcomes :
        (ProcessDocument(document, pdf, out) /\ ~ExtractText(document, pdf).ok) =>
            /\ ret'.res = "Err" /\ ret'.val = <<>>
            /\ processing_queue' = processing_queue
C20_NothingQueued == [][C20_NothingQueuedStep]_vars

\* process_document returned a ProcessedDocument
Processed_Ok == ret.op = "process_document" /\ ret.res = "Ok"

\* The line breaks of a text and the segments they delimit, by position:
\* segment i lies between the (i-1)-th and the i-th line break.
LineBreaks(text) == {i \in DOMAIN text : text[i] = LF}
NthBreak(text, n) ==
    IF n = 0 THEN 0
    ELSE IF n > Cardinality(LineBreaks(text)) THEN Len(text) + 1
    ELSE CHOOSE p \in LineBreaks(text) :
             Cardinality({q \in LineBreaks(text) : q < p}) = n - 1
Segment(text, i) == SubSeq(text, NthBreak(text, i - 1) + 1, NthBreak(text, i) - 1)

RECURSIVE Join(_)
Join(chunks) ==
    IF Len(chunks) = 0 THEN <<>>
    ELSE IF Len(chunks) = 1 THEN chunks[1].content
    ELSE chunks[1].content \o <<LF>> \o Join(Tail(chunks))

C23_LargeDocumentSplit ==
    (/\ Processed_Ok
     /\ ret.val[1].metadata.content_type = "text/plain"
     /\ Len(ret.val[1].text_content) = MaxLen
     /\ LineBreaks(ret.val[1].text_content) = {}) =>
        Len(ret.val[1].chunks) > 1

\* Content that String::from_utf8 accepts, and the text it gives (the
\* model's valid bytes are ASCII).
ValidUtf8(content) == \A i \in DOMAIN content : content[i] < 128
Decoded(content) == [i \in DOMAIN content |-> IF content[i] = 10 THEN LF ELSE "a"]

\* C24 -- Result of a successful process_document: for a document that is
\* not a PDF, with valid UTF-8 content (empty content included), and a store
\* that answers, process_document returns a ProcessedDocument with the
\* document's id and metadata, the decoded content as text_content and at
\* least one chunk; processing_queue has exactly one entry more, at its push
\* end, and nothing else on it changed.
C24_Step ==
    \A document \in DocDocuments :
        (/\ document.metadata.content_type # "application/pdf"
         /\ ValidUtf8(document.content)
         /\ ProcessDocument(document, NoPdf, "Ok")) =>
            /\ ret'.op = "process_document" /\ ret'.res = "Ok"
            /\ ret'.val[1].doc_id = document.id
            /\ ret'.val[1].metadata = document.metadata
            /\ ret'.val[1].text_content = Decoded(document.content)
            /\ Len(ret'.val[1].chunks) >= 1
            /\ Len(processing_queue') = Len(processing_queue) + 1
            /\ SubSeq(processing_queue', 2, Len(processing_queue')) = processing_queue
            /\ UNCHANGED <<retry_queue, dead_letter_queue>>
C24_ProcessDocumentResult == [][C24_Step]_vars

\* The second document, with empty content, was processed while the entry
\* of the first is still queued: one chunk, two entries.
C24_Witness ==
    /\ Processed_Ok
    /\ ret.val[1].doc_id = 2
    /\ ret.val[1].metadata.content_type = "text/plain"
    /\ ret.val[1].text_content = <<>>
    /\ Len(ret.val[1].chunks) = 1
    /\ Len(processing_queue) = 2

\* C26 as claimed -- cleanup_old_sessions returns 0 for every age_hours and
\* in every state, and leaves the in-process table, research_queue and all
\* status and progress records unchanged.
C26_StepClaimed ==
    \A age \in AgeHours, out \in StoreOutcomes :
        CleanupOldSessions(age, out) =>
            /\ ret' = Ok("cleanup_old_sessions", <<0>>)
            /\ UNCHANGED <<active_sessions, research_queue, status, progress>>
C26_CleanupAlwaysReturnsZero == [][C26_StepClaimed]_vars

\* C26 as amended -- cleanup_old_sessions returns 0 for every age_hours
\* whenever it gets its store connection, and a Queue error when it does not;
\* either way it leaves the in-process table, research_queue and all status
\* and progress records unchanged.
C26_Step ==
    \A age \in AgeHours, out \in StoreOutcomes :
        CleanupOldSessions(age, out) =>
            /\ out = "Ok" => ret' = Ok("cleanup_old_sessions", <<0>>)
            /\ out # "Ok" => ret' = Err("cleanup_old_sessions", "Queue")
            /\ UNCHANGED <<active_sessions, research_queue, status, progress>>
C26_CleanupReturnsZero == [][C26_Step]_vars

\* cleanup_old_sessions answered 0 although the table holds a session whose
\* processing has ended.
C26_Witness ==
    /\ ret = Ok("cleanup_old_sessions", <<0>>)
    /\ active_sessions[1] # <<>>
    /\ status[1] # Nil /\ StatusOf(status, 1) \in Terminal

\* C27 -- Per-session event order in the drain, with store failures and
\* abandoned invocations.  In the calls made for a popped session: the pop
\* comes first; search papers directly follows the SearchingPapers write,
\* process documents directly follows a successful search papers, build
\* knowledge base directly follows a successful process documents, and the
\* Completed write directly follows a successful build knowledge base, so no
\* phase runs before SearchingPapers is persisted and Completed is written
\* only after all three phases succeeded; after a failed phase the only
\* further call is the Error write; Error is written only after a failed
\* phase or when the SearchingPapers write failed; nothing follows a
\* terminal write.
C27_EventOrder ==
    \A id \in SessionIds :
        LET e == events[id]
        IN \A i \in DOMAIN e :
             /\ (i = 1) <=> (e[i] = Ev("rpop", ""))
             /\ e[i] = Ev("set", "SearchingPapers") => i = 2
             /\ e[i].ev = "search_papers" =>
                   e[i - 1] = Ev("set", "SearchingPapers")
             /\ e[i].ev = "process_documents" => e[i - 1] = Ev("search_papers", "Ok")
             /\ e[i].ev = "build_knowledge_base" =>
                   e[i - 1] = Ev("process_documents", "Ok")
             /\ e[i] = Ev("set", "Completed") =>
                   e[i - 1] = Ev("build_knowledge_base", "Ok")
             /\ (e[i].ev \in Phases /\ e[i].arg = "Err" /\ i < Len(e)) =>
                   (i + 1 = Len(e) /\ e[i + 1] = Ev("set", "Error"))
             /\ e[i] = Ev("set", "Error") =>
                   \/ e[i - 1].ev \in Phases /\ e[i - 1].arg = "Err"
                   \/ e[i - 1] = Ev("rpop", "")
             /\ (e[i].ev = "set" /\ e[i].arg \in Terminal) => i = Len(e)
             /\ e[i].ev = "set" =>
                   e[i].arg \in {"SearchingPapers", "Completed", "Error"}

\* Session 1 went through all three phases to Completed; for session 2 the
\* second phase failed and Error was written.
C27_Witness ==
    /\ events[1] = <<Ev("rpop", ""), Ev("set", "SearchingPapers"),
                     Ev("search_papers", "Ok"), Ev("process_documents", "Ok"),
                     Ev("build_knowledge_base", "Ok"), Ev("set", "Completed")>>
    /\ events[2] = <<Ev("rpop", ""), Ev("set", "SearchingPapers"),
                     Ev("search_papers", "Ok"), Ev("process_documents", "Err"),
                     Ev("set", "Error")>>

\* An item is in circulation while it is on processing_queue or retry_queue,
\* with the worker, or in the hands of process_retries.
ItemIds == 1..MaxProduced
Circulating(id) ==
    id \in IdsOf(ItemsOn(processing_queue) \cup ItemsOn(retry_queue)
                  \cup held \cup InHand)

\* C25 -- Every failed-then-retried item reaches an end state, for every
\* max_retries >= 0, when store calls succeed, the worker keeps dequeuing and
\* reporting an outcome and process_retries keeps being invoked.  (a) Every
\* item in circulation leads to being out of circulation for good: removed
\* after success or resident on dead_letter_queue.  (b) Nothing circulates
\* forever because retry_count measures the way: an item goes onto
\* retry_queue only from the worker, with its retry_count one higher and
\* still below max_retries, and comes back onto processing_queue only from
\* process_retries, with the retry_count it had on retry_queue.
C25_Step ==
    /\ \A it \in ItemsOn(retry_queue') \ ItemsOn(retry_queue) :
          /\ it.retry_count < max_retries
          /\ \E old \in held : old.id = it.id /\ it.retry_count = old.retry_count + 1
    /\ \A it \in ItemsOn(processing_queue') \ ItemsOn(processing_queue) :
          \/ it.id = nextItem /\ it.retry_count = 0
          \/ it \in InHand /\ it.retry_count >= 1
C25_EveryItemEnds ==
    /\ [][C25_Step]_vars
    /\ \A id \in ItemIds : Circulating(id) ~> [](~Circulating(id))

\* With max_retries = 2 an item failed twice, going through retry_queue and
\* process_retries in between, and rests on dead_letter_queue; the other
\* item was removed after success; nothing is in circulation.
C25_Witness ==
    /\ max_retries = 2
    /\ nextItem = 3
    /\ \E it \in ItemsOn(dead_letter_queue) : it.retry_count = 2 /\ it.priority \in {1, 6}
    /\ Len(dead_letter_queue) = 1
    /\ \A id \in ItemIds : ~Circulating(id)

\* What identifies an item whatever its priority, and the items of a list in
\* list order (push end first).
Ident(item) == [id |-> item.id, retry_count |-> item.retry_count, payload |-> item.payload]
IdentSeq(list) == [i \in DOMAIN list |-> Ident(QueueItem_from_str(list[i]).item)]
\* retry_queue, then the item process_retries holds, then processing_queue:
\* read from the far end, the order in which the items are to be popped from
\* processing_queue once the pass is over.
PassOrder ==
    IdentSeq(retry_queue)
      \o (IF pr[1].item = <<>> THEN <<>> ELSE <<Ident(pr[1].item[1])>>)
      \o IdentSeq(processing_queue)
PassReturned ==
    /\ pr[1].pc = "idle"
    /\ retry_queue = <<>>
    /\ ret = Ok("process_retries", <<>>)

\* C28 -- process_retries is a complete single pass (lists distinct, store
\* calls succeeding, nothing else running).  (a) Every step of the pass keeps
\* the sequence retry_queue, item in hand, processing_queue: so when
\* retry_queue has become empty, processing_queue is the items that were on
\* retry_queue at the start, each once and in the same relative order,
\* followed by the entries it already had, unchanged.  (b) The pass returns
\* only with success and retry_queue empty.  (c) It does return.
C28_Step ==
    pr'[1] # pr[1] =>
        /\ PassOrder' = PassOrder
        /\ Len(retry_queue') + Len(processing_queue')
              + (IF pr'[1].item = <<>> THEN 0 ELSE 1)
            = Len(retry_queue) + Len(processing_queue)
              + (IF pr[1].item = <<>> THEN 0 ELSE 1)
        /\ UNCHANGED <<dead_letter_queue, held>>
        /\ (pr[1].pc # "idle" /\ pr'[1].pc = "idle") => PassReturned'
C28_CompleteSinglePass ==
    /\ [][C28_Step]_vars
    /\ (pr[1].pc # "idle") ~> PassReturned

\* A pass has returned after moving two retried items behind nothing:
\* processing_queue holds both, the one retried first nearer the pop end.
C28_Witness ==
    /\ PassReturned
    /\ Len(processing_queue) = 2
    /\ IdentSeq(processing_queue)[1].retry_count = 1
    /\ IdentSeq(processing_queue)[2].retry_count = 1
    /\ held = {}

\* ---------------------------------------------------------------- C29
HandlerOps == {"enqueue", "dequeue", "retry", "process_retries", "get_queue_length"}
Failed(log) == \E i \in 1..Len(log) : log[i].res = "Err"

\* C29 -- store failures surface once, as Queue errors.  In every step of
\* enqueue, dequeue, retry, process_retries and get_queue_length: a store
\* call (connection, push, pop or length) that fails is the last store call
\* the step issues, and the operation has returned a Queue error; no store
\* call appears twice among the calls of the step; and a process_retries
\* whose store call failed has returned, so it issues no store call after.
C29_State ==
    /\ \A i \in 1..Len(calls) :
          calls[i].res = "Err" =>
              /\ i = Len(calls)
              /\ ret.op \in HandlerOps
              /\ ret.res = "Err"
              /\ ret.err = "Queue"
    /\ \A i, j \in 1..Len(calls) : calls[i].call = calls[j].call => i = j
C29_Step ==
    \A w \in RetryCallers :
        (pr'[w] # pr[w] /\ Failed(calls')) =>
            /\ pr'[w] = PrIdle
            /\ ret'.op = "process_retries"
C29_StoreFailureSurfacesOnce == [](C29_State) /\ [][C29_Step]_vars

\* get_queue_length obtained its connection and failed on the first length
\* call: it returned a Queue error and never asked for the second length.
C29_Witness ==
    /\ ret = Err("get_queue_length", "Queue")
    /\ Len(calls) = 2
    /\ calls[1] = [call |-> Connect, res |-> "Ok"]
    /\ calls[2] = [call |-> "llen processing_queue", res |-> "Err"]

\* ---------------------------------------------------------------- C30
\* Everywhere an item can be: the three lists, a consumer's hands, and the
\* local variable of a running process_retries.
Places == <<processing_queue, retry_queue, dead_letter_queue, held, pr>>

\* The items a step brings to a place in a form that was not there before
\* the step: an item that changes in any field is one of them.
Entries(list) == {list[i] : i \in DOMAIN list}
ArrivedOn(list, list2) ==
    {QueueItem_from_str(e).item :
        e \in {x \in Entries(list2) \ Entries(list) : QueueItem_from_str(x).ok}}
Arrived ==
    ArrivedOn(processing_queue, processing_queue')
        \cup ArrivedOn(retry_queue, retry_queue')
        \cup ArrivedOn(dead_letter_queue, dead_letter_queue')
        \cup (held' \ held) \cup (InHand' \ InHand)

\* C30 -- only the handler's retry path mutates an item.  (a) A successful
\* enqueue stores an entry that reads back as exactly the item handed in, and
\* a dequeue that returns an item returns exactly an item that was on
\* processing_queue and takes it off: so enqueue followed by dequeue returns
\* an item with the same id, priority, retry_count and payload.  (b) From one
\* state to the next, wherever an item goes, its payload stays; its
\* retry_count changes only in a retry of that item, by +1; its priority
\* changes only when process_retries takes it off retry_queue, by +1.
C30_Step ==
    /\ nextItem' # nextItem =>
          \A item \in NewItems :
              Enqueue(item, "Ok") =>
                  /\ QueueItem_from_str(processing_queue'[1]) = [ok |-> TRUE, item |-> item]
                  /\ SubSeq(processing_queue', 2, Len(processing_queue')) = processing_queue
    /\ (/\ Len(processing_queue') < Len(processing_queue)
        /\ ret'.op = "dequeue" /\ ret'.res = "Ok" /\ ret'.val # <<>>) =>
           /\ QueueItem_from_str(rpop_value(processing_queue))
                 = [ok |-> TRUE, item |-> ret'.val[1]]
           /\ ret'.val[1] \notin ItemsOn(processing_queue')
    /\ Places' # Places =>
        \A b \in Arrived : \A a \in AllItems :
          a.id = b.id =>
              /\ b.payload = a.payload
              /\ b.retry_count # a.retry_count =>
                    /\ b.retry_count = a.retry_count + 1
                    /\ b.priority = a.priority
                    /\ a \in held
                    /\ b \in ItemsOn(retry_queue') \cup ItemsOn(dead_letter_queue')
                    /\ ret'.op = "retry"
              /\ b.priority # a.priority =>
                    /\ b.priority = a.priority + 1
                    /\ b.retry_count = a.retry_count
                    /\ a \in ItemsOn(retry_queue)
                    /\ b \in InHand'
C30_OnlyRetryPathMutates == [][C30_Step]_vars

\* An item enqueued with priority 5 has been retried once and re-queued by
\* process_retries; dequeue returns it with retry_count 1 and priority 6.
C30_Witness ==
    /\ ret.op = "dequeue"
    /\ ret.res = "Ok"
    /\ ret.val # <<>>
    /\ ret.val[1].retry_count = 1
    /\ ret.val[1].priority = 6

\* ---------------------------------------------------------------- C31
\* The copies of the item with this id: list positions, a consumer's hands,
\* the local variable of a running process_retries.
PositionsOf(list, id) ==
    {i \in DOMAIN list :
        QueueItem_from_str(list[i]).ok /\ QueueItem_from_str(list[i]).item.id = id}
Copies(id) ==
    Cardinality(PositionsOf(processing_queue, id))
      + Cardinality(PositionsOf(retry_queue, id))
      + Cardinality(PositionsOf(dead_letter_queue, id))
      + Cardinality({it \in held : it.id = id})
      + Cardinality({w \in RetryCallers : pr[w].item # <<>> /\ pr[w].item[1].id = id})
\* The ids the handler has in its custody: on a list or in process_retries.
Custody ==
    IdsOf(ItemsOn(processing_queue) \cup ItemsOn(retry_queue)
            \cup ItemsOn(dead_letter_queue) \cup InHand)
Quiescent == \A w \in RetryCallers : pr[w].pc = "idle"

\* C31 -- item conservation when every store call succeeds.  No item has
\* two copies (over the three lists, the consumers and a running
\* process_retries), so one that is on a list is on exactly one.  From one
\* state to the next: an enqueued item enters the handler's custody; an item
\* leaves the custody only as the item a dequeue returns; a retried item is
\* back in custody; and at a quiescent point every item in custody is on a
\* list.
C31_State ==
    /\ \A id \in ItemIds : Copies(id) <= 1
    /\ Quiescent => InHand = {}
C31_Step ==
    /\ nextItem' # nextItem => nextItem \in Custody'
    /\ Custody \ Custody' # {} =>
          /\ ret'.op = "dequeue" /\ ret'.res = "Ok" /\ ret'.val # <<>>
          /\ Custody \ Custody' = {ret'.val[1].id}
          /\ Len(processing_queue') = Len(processing_queue) - 1
    /\ IdsOf(held) \ IdsOf(held') \subseteq Custody'
C31_ItemConservation == [](C31_State) /\ [][C31_Step]_vars

\* Quiescent, nothing with a consumer: one item was retried to exhaustion
\* and is on dead_letter_queue, the other was retried once and is on
\* retry_queue.
C31_Witness ==
    /\ Quiescent
    /\ held = {}
    /\ Len(dead_letter_queue) = 1
    /\ Len(retry_queue) = 1
    /\ Custody = {1, 2}

\* ---------------------------------------------------------------- C32
\* C32 -- process_retries loses no item on failure: in the step in which a
\* process_retries call returns an error, the item the call had popped and
\* not yet pushed is on retry_queue or on processing_queue afterwards (the
\* items it had already moved are on processing_queue by C28's step, the
\* ones it had not reached are still on retry_queue).
C32_Step ==
    \A w \in RetryCallers :
        (/\ pr[w].pc # "idle"
         /\ pr'[w].pc = "idle"
         /\ ret'.op = "process_retries"
         /\ ret'.res = "Err") =>
            /\ IdsOf(ItemsOn(retry_queue)) \subseteq IdsOf(ItemsOn(retry_queue'))
            /\ pr[w].item # <<>> =>
                  pr[w].item[1].id \in
                      IdsOf(ItemsOn(retry_queue') \cup ItemsOn(processing_queue'))
C32_NoItemLostOnFailure == [][C32_Step]_vars

\* ---------------------------------------------------------------- C33
\* priority - retry_count: for an item enqueued with retry_count 0 and
\* priority p0 the claim says it is p0 on processing_queue and p0 - 1 on
\* retry_queue.
Offset(item) == item.priority - item.retry_count
\* Some item of the set is the same item (by id) with this offset.
HasOffset(items, id, off) == \E a \in items : a.id = id /\ Offset(a) = off

\* C33 -- priority tracks the retry history (items first enqueued with
\* retry_count 0 and priority p0).  An item on processing_queue has
\* priority - p0 = retry_count and an item on retry_queue has
\* priority - p0 = retry_count - 1.  In every state the p0 read off an item
\* in this way is one of the priorities items are enqueued with; and every
\* step carries it along: an item arrives on processing_queue from enqueue
\* (retry_count 0, its own priority) or from process_retries with the offset
\* it was taken with, at a consumer with the offset it had on
\* processing_queue, on retry_queue with the consumer's offset less one, and
\* in process_retries with retry_queue's offset plus one.
C33_State ==
    /\ \A it \in ItemsOn(processing_queue) : Offset(it) \in Priorities
    /\ \A it \in ItemsOn(retry_queue) : Offset(it) + 1 \in Priorities
C33_Step ==
    Places' # Places =>
        /\ \A b \in ArrivedOn(processing_queue, processing_queue') :
              \/ b \in NewItems /\ nextItem' # nextItem
              \/ HasOffset(InHand, b.id, Offset(b))
        /\ \A b \in held' \ held :
              HasOffset(ItemsOn(processing_queue), b.id, Offset(b))
        /\ \A b \in ArrivedOn(retry_queue, retry_queue') :
              HasOffset(held, b.id, Offset(b) + 1)
        /\ \A b \in InHand' \ InHand :
              HasOffset(ItemsOn(retry_queue), b.id, Offset(b) - 1)
C33_PriorityTracksRetries == [](C33_State) /\ [][C33_Step]_vars

\* An item enqueued with priority 5 is back on processing_queue after one
\* retry cycle (retry_count 1, priority 6) while one enqueued with priority
\* 0 waits on retry_queue (retry_count 1, priority still 0).
C33_Witness ==
    /\ \E it \in ItemsOn(processing_queue) : it.retry_count = 1 /\ it.priority = 6
    /\ \E it \in ItemsOn(retry_queue) : it.retry_count = 1 /\ it.priority = 0

\* ---------------------------------------------------------------- C34
\* The most times an item may be placed on processing_queue.
Deliveries == IF max_retries > 1 THEN max_retries ELSE 1
\* Some item of the set is the same item (by id) with this retry_count.
HasCount(items, id, n) == \E a \in items : a.id = id /\ a.retry_count = n

\* C34 -- bounded redelivery (items first enqueued with retry_count 0).  An
\* item is placed on processing_queue by enqueue with retry_count 0, and
\* again only by process_retries after one retry more, which has raised its
\* retry_count by exactly one: so an item that is on processing_queue with
\* retry_count n is there for the (n + 1)-th time.  In every state n + 1 is
\* at most max(1, max_retries), for the items on the way to a placement as
\* well; and with max_retries 0 or 1 nothing is ever on its way to a second
\* placement.
C34_State ==
    /\ \A it \in ItemsOn(processing_queue) \cup InHand \cup ItemsOn(retry_queue) :
          it.retry_count + 1 <= Deliveries
    /\ max_retries <= 1 => (retry_queue = <<>> /\ InHand = {})
C34_Step ==
    Places' # Places =>
        /\ \A b \in ArrivedOn(processing_queue, processing_queue') :
              \/ b \in NewItems /\ nextItem' # nextItem /\ b.retry_count = 0
              \/ b.retry_count >= 1 /\ HasCount(InHand, b.id, b.retry_count)
        /\ \A b \in InHand' \ InHand :
              HasCount(ItemsOn(retry_queue), b.id, b.retry_count)
        /\ \A b \in ArrivedOn(retry_queue, retry_queue') :
              HasCount(held, b.id, b.retry_count - 1)
        /\ \A b \in held' \ held :
              HasCount(ItemsOn(processing_queue), b.id, b.retry_count)
C34_BoundedRedelivery == [](C34_State) /\ [][C34_Step]_vars

\* max_retries = 2: one item is on processing_queue for the second and last
\* time (retry_count 1); the other has failed twice and is dead-lettered.
C34_Witness ==
    /\ max_retries = 2
    /\ \E it \in ItemsOn(processing_queue) : it.retry_count = 1
    /\ \E it \in ItemsOn(dead_letter_queue) : it.retry_count = 2

\* ---------------------------------------------------------------- C35
\* C35 -- concurrent process_retries calls do not duplicate work (store
\* calls succeeding).  Under every interleaving of two invocations an item
\* never has two copies; the invocation that takes an item off retry_queue
\* is the only one to get it, and takes it with its priority raised by
\* exactly 1; the invocation puts it on processing_queue once, as taken.
C35_State == \A id \in ItemIds : Copies(id) <= 1
C35_Step ==
    \A w \in RetryCallers :
        /\ (pr[w].pc = "pop" /\ pr'[w].pc = "enqueue") =>
              LET stored == QueueItem_from_str(rpop_value(retry_queue)).item
                  taken == pr'[w].item[1]
              IN /\ taken = [stored EXCEPT !.priority = stored.priority + 1]
                 /\ Len(retry_queue') = Len(retry_queue) - 1
                 /\ PositionsOf(retry_queue', taken.id) = {}
                 /\ \A v \in RetryCallers \ {w} : pr'[v] = pr[v]
        /\ (pr[w].pc = "enqueue" /\ pr'[w].pc = "pop") =>
              /\ Len(processing_queue') = Len(processing_queue) + 1
              /\ Cardinality(PositionsOf(processing_queue', pr[w].item[1].id)) = 1
              /\ pr[w].item[1] \in ItemsOn(processing_queue')
              /\ \A v \in RetryCallers \ {w} : pr'[v] = pr[v]
C35_ConcurrentRetriesNoDuplicate == [](C35_State) /\ [][C35_Step]_vars

\* Two invocations are running at once, each holding a different item it
\* took off retry_queue.
C35_Witness ==
    /\ pr[1].pc = "enqueue"
    /\ pr[2].pc = "enqueue"
    /\ pr[1].item[1].id # pr[2].item[1].id

\* ---------------------------------------------------------------- C36
\* C36 -- start_research is all-or-nothing: in the step in which
\* start_research returns an error, the in-process session table is the same
\* as before the call (no entry for the session it was creating), and
\* nothing was pushed on research_queue.
C36_Step ==
    (nextSession' # nextSession
       /\ ret'.op = "start_research" /\ ret'.res = "Err") =>
        /\ active_sessions' = active_sessions
        /\ active_sessions'[nextSession] = <<>>
        /\ research_queue' = research_queue
C36_StartResearchAllOrNothing == [][C36_Step]_vars

\* ---------------------------------------------------------------- C37
\* A store call of the drain fails (the pop, or one of the status writes),
\* or the popped entry does not deserialize.
DrainFailure(d) ==
    \/ DR_Pop(d, "Err")
    \/ DR_SetSearching(d, "Err")
    \/ DR_SetCompleted(d, "Err")
    \/ DR_SetError(d, "Err")
    \/ /\ research_queue # <<>>
       /\ ~ResearchSession_from_str(rpop_value(research_queue)).ok
       /\ DR_Pop(d, "Ok")

\* C37 -- the drain stops at the first store or decoding failure: in the
\* step in which a status write, a pop or the deserialization of a popped
\* entry fails, process_research_queue returns the error (so it pops no
\* further session); the sessions still on research_queue stay there
\* unchanged and in order; the entry that was being handled is not on
\* research_queue.
C37_Step ==
    \A d \in Drainers :
        DrainFailure(d) =>
            /\ dr'[d] = DrIdle
            /\ ret'.op = "process_research_queue"
            /\ ret'.res = "Err"
            /\ \/ research_queue' = research_queue
               \/ research_queue' = rpop_rest(research_queue)
            /\ dr[d].session # <<>> =>
                  \A i \in DOMAIN research_queue' :
                      research_queue'[i] # ResearchSession_to_string(dr[d].session[1])
C37_DrainStopsAtFirstFailure == [][C37_Step]_vars

====
